---- MODULE Spec2Model ----
(***************************************************************************)
(* TextFileSynth: the Scanner (text -> tokens), the Parser (tokens ->      *)
(* samples), the TFSEnvironment and its PulseGenerator, as state machines. *)
(* Characters are one-character strings; a text is a sequence of them.     *)
(* "^2" stands for U+00B2, a character for which str.isnumeric() is true   *)
(* and int() raises ValueError.                                            *)
(***************************************************************************)
EXTENDS Integers, Sequences, FiniteSets, TLC

VARIABLES
    text,               \* Scanner.__text
    scanner_current,    \* Scanner.__current
    current_ln,         \* Scanner.__current_ln
    current_col,        \* Scanner.__current_col
    start_of_token,     \* Scanner.__start_of_token
    tokens,             \* Scanner.tokens, handed to Parser.__tokens
    scanner_error_msg,  \* Scanner.error_msg
    scanner_success,    \* Scanner.success ("unset" until __try_scan_tokens returns)
    scanner_pc,         \* "scanning", "done", or "raised" (an exception left __init__)
    parser_current,     \* Parser.__current
    octave,             \* Parser.__octave
    samples,            \* Parser.samples
    parser_error_msg,   \* Parser.error_msg
    parser_success,     \* Parser.success ("unset" until __try_parse_tokens returns)
    parser_pc,          \* "idle", "parsing", "done", or "raised"
    sample_rate,        \* TFSEnvironment.__sample_rate and SignalGenerator._sample_rate
    bpm,                \* TFSEnvironment.__bpm
    gain,               \* TFSEnvironment.__gain, in hundredths
    freq,               \* SignalGenerator._freq, a double
    samples_elapsed,    \* SignalGenerator.__samples_elapsed
    pulse_percent,      \* PulseGenerator._pulse_percent, a double
    returned,           \* the list returned by the last call of note() or rest()
    calls,              \* history: the calls made on the TFSEnvironment, in order
    exception,          \* the exception that left Scanner() or Parser(), or None
    exit_code,          \* tfs.py: the status passed to exit(), -1 before any exit
    output              \* tfs.py: whether the output file was written, and the samples in it

scanner_vars == <<text, scanner_current, current_ln, current_col, start_of_token,
                  tokens, scanner_error_msg, scanner_success, scanner_pc>>

parser_vars == <<parser_current, octave, samples, parser_error_msg, parser_success, parser_pc>>

env_vars == <<sample_rate, bpm, gain, freq, samples_elapsed, pulse_percent, returned, calls>>

cli_vars == <<exception, exit_code, output>>

vars == <<scanner_vars, parser_vars, env_vars, cli_vars>>

----------------------------------------------------------------------------
(* Token types, tfs_script.py:26-34 *)

NOTE_LETTER == "Note Letter"
REST == "Rest"
NUMBER == "Number"
LENGTH_EXT == "Length Extension"
SHARP == "Sharp"
FLAT == "Flat"
OCT_UP == "Octave Up"
OCT_DN == "Octave Down"
BPM_CHANGE == "BPM Change"

None == "None"

ScriptIndex(line, column) == [line_num |-> line, column_num |-> column]

Token(token_type, value, raw_script, script_index) ==
    [token_type |-> token_type, value |-> value,
     raw_script |-> raw_script, script_index |-> script_index]

----------------------------------------------------------------------------
(* Scanner *)

DecimalDigits == {"0", "1", "2", "3", "4", "5", "6", "7", "8", "9"}
OtherNumerics == {"^2"}
NoteLetters == {"a", "b", "c", "d", "e", "f", "g"}

isnumeric(c) == c \in DecimalDigits \cup OtherNumerics

DigitValue(c) ==
    CASE c = "0" -> 0 [] c = "1" -> 1 [] c = "2" -> 2 [] c = "3" -> 3
      [] c = "4" -> 4 [] c = "5" -> 5 [] c = "6" -> 6 [] c = "7" -> 7
      [] c = "8" -> 8 [] c = "9" -> 9

\* int(s) for a non-empty run of decimal digits
RECURSIVE int(_)
int(s) ==
    IF Len(s) = 0 THEN 0
    ELSE int(SubSeq(s, 1, Len(s) - 1)) * 10 + DigitValue(s[Len(s)])

\* int(s) raises ValueError
int_raises(s) == \E i \in 1..Len(s) : s[i] \notin DecimalDigits

SingleCharType(c) ==
    CASE c = "_" -> REST
      [] c = "+" -> SHARP
      [] c = "-" -> FLAT
      [] c = ">" -> OCT_UP
      [] c = "<" -> OCT_DN
      [] c = "@" -> BPM_CHANGE

SingleChars == {"_", "+", "-", ">", "<", "@"}

Scanner_is_at_end(cur) == cur >= Len(text)

\* the character __advance returns when __current is cur before the call
Scanner_advance_char(cur) == text[cur + 1]

\* __peek: text[cur] of the 0-based string; IndexError iff cur >= len(text)
Scanner_peek(cur) == text[cur + 1]

get_substring(start, cur) == SubSeq(text, start + 1, cur)

\* __add_token, with the counters as they stand when it is called
add_token(token_type, value, start, cur, ln, col) ==
    LET raw == get_substring(start, cur)
    IN Append(tokens, Token(token_type, value, raw,
                            ScriptIndex(ln + 1, col - Len(raw) + 1)))

\* __newline(c) called with the counters cur, ln (col is overwritten)
newline(c, cur, ln) ==
    IF c = "\r" /\ Scanner_is_at_end(cur)
    THEN [current |-> cur, ln |-> ln + 1, col |-> 0, raised |-> "IndexError"]
    ELSE IF c = "\r" /\ Scanner_peek(cur) = "\n"
    THEN [current |-> cur + 1, ln |-> ln + 1, col |-> 1, raised |-> None]
    ELSE [current |-> cur, ln |-> ln + 1, col |-> 0, raised |-> None]

\* __comment without the call of __newline: the line break is consumed and
\* not counted
RECURSIVE comment_uncounted(_, _, _)
comment_uncounted(cur, ln, col) ==
    IF Scanner_is_at_end(cur)
    THEN [current |-> cur, ln |-> ln, col |-> col, raised |-> None]
    ELSE IF Scanner_advance_char(cur) \in {"\r", "\n"}
    THEN [current |-> cur + 1, ln |-> ln, col |-> col + 1, raised |-> None]
    ELSE comment_uncounted(cur + 1, ln, col + 1)

\* __comment: advance up to and including the first line break
RECURSIVE comment(_, _, _)
comment(cur, ln, col) ==
    IF Scanner_is_at_end(cur)
    THEN [current |-> cur, ln |-> ln, col |-> col, raised |-> None]
    ELSE LET c == Scanner_advance_char(cur)
         IN IF c \in {"\r", "\n"}
            THEN newline(c, cur + 1, ln)
            ELSE comment(cur + 1, ln, col + 1)

\* the loop of __number: the index after the maximal run of numeric characters
RECURSIVE number_end(_)
number_end(cur) ==
    IF Scanner_is_at_end(cur) \/ ~isnumeric(Scanner_peek(cur)) THEN cur
    ELSE number_end(cur + 1)

\* the loop of __tildes
RECURSIVE tildes_end(_)
tildes_end(cur) ==
    IF Scanner_is_at_end(cur) \/ Scanner_peek(cur) # "~" THEN cur
    ELSE tildes_end(cur + 1)

\* guard of one iteration of the loop of __try_scan_tokens
ScanLoop == scanner_pc = "scanning" /\ ~Scanner_is_at_end(scanner_current)

ScanWhitespace ==
    /\ ScanLoop
    /\ Scanner_advance_char(scanner_current) \in {" ", "\t"}
    /\ start_of_token' = scanner_current
    /\ scanner_current' = scanner_current + 1
    /\ current_col' = current_col + 1
    /\ UNCHANGED <<text, current_ln, tokens, scanner_error_msg, scanner_success, scanner_pc>>
    /\ UNCHANGED <<parser_vars, env_vars, cli_vars>>

ScanNewline ==
    /\ ScanLoop
    /\ Scanner_advance_char(scanner_current) \in {"\r", "\n"}
    /\ LET r == newline(Scanner_advance_char(scanner_current), scanner_current + 1, current_ln)
       IN /\ start_of_token' = scanner_current
          /\ scanner_current' = r.current
          /\ current_ln' = r.ln
          /\ current_col' = r.col
          /\ scanner_pc' = IF r.raised # None THEN "raised" ELSE scanner_pc
          /\ exception' = r.raised
    /\ UNCHANGED <<text, tokens, scanner_error_msg, scanner_success>>
    /\ UNCHANGED <<parser_vars, env_vars, exit_code, output>>

ScanComment ==
    /\ ScanLoop
    /\ Scanner_advance_char(scanner_current) = "#"
    /\ LET r == comment(scanner_current + 1, current_ln, current_col + 1)
       IN /\ start_of_token' = scanner_current
          /\ scanner_current' = r.current
          /\ current_ln' = r.ln
          /\ current_col' = r.col
          /\ scanner_pc' = IF r.raised # None THEN "raised" ELSE scanner_pc
          /\ exception' = r.raised
    /\ UNCHANGED <<text, tokens, scanner_error_msg, scanner_success>>
    /\ UNCHANGED <<parser_vars, env_vars, exit_code, output>>

ScanTildes ==
    /\ ScanLoop
    /\ Scanner_advance_char(scanner_current) = "~"
    /\ LET end == tildes_end(scanner_current + 1)
           col == current_col + (end - scanner_current)
       IN /\ start_of_token' = scanner_current
          /\ scanner_current' = end
          /\ current_col' = col
          /\ tokens' = add_token(LENGTH_EXT, end - scanner_current,
                                 scanner_current, end, current_ln, col)
    /\ UNCHANGED <<text, current_ln, scanner_error_msg, scanner_success, scanner_pc>>
    /\ UNCHANGED <<parser_vars, env_vars, cli_vars>>

ScanSingle ==
    /\ ScanLoop
    /\ Scanner_advance_char(scanner_current) \in SingleChars
    /\ start_of_token' = scanner_current
    /\ scanner_current' = scanner_current + 1
    /\ current_col' = current_col + 1
    /\ tokens' = add_token(SingleCharType(Scanner_advance_char(scanner_current)), None,
                           scanner_current, scanner_current + 1, current_ln, current_col + 1)
    /\ UNCHANGED <<text, current_ln, scanner_error_msg, scanner_success, scanner_pc>>
    /\ UNCHANGED <<parser_vars, env_vars, cli_vars>>

ScanNumber ==
    /\ ScanLoop
    /\ isnumeric(Scanner_advance_char(scanner_current))
    /\ LET end == number_end(scanner_current + 1)
           col == current_col + (end - scanner_current)
           raw == get_substring(scanner_current, end)
       IN /\ start_of_token' = scanner_current
          /\ scanner_current' = end
          /\ current_col' = col
          /\ IF int_raises(raw)
             THEN /\ scanner_pc' = "raised"
                  /\ exception' = "ValueError"
                  /\ UNCHANGED tokens
             ELSE /\ tokens' = add_token(NUMBER, int(raw), scanner_current, end, current_ln, col)
                  /\ UNCHANGED <<scanner_pc, exception>>
    /\ UNCHANGED <<text, current_ln, scanner_error_msg, scanner_success>>
    /\ UNCHANGED <<parser_vars, env_vars, exit_code, output>>

ScanNoteLetter ==
    /\ ScanLoop
    /\ Scanner_advance_char(scanner_current) \in NoteLetters
    /\ start_of_token' = scanner_current
    /\ scanner_current' = scanner_current + 1
    /\ current_col' = current_col + 1
    /\ tokens' = add_token(NOTE_LETTER, Scanner_advance_char(scanner_current),
                           scanner_current, scanner_current + 1, current_ln, current_col + 1)
    /\ UNCHANGED <<text, current_ln, scanner_error_msg, scanner_success, scanner_pc>>
    /\ UNCHANGED <<parser_vars, env_vars, cli_vars>>

Recognized == {" ", "\t", "\r", "\n", "#", "~"} \cup SingleChars \cup DecimalDigits
                \cup OtherNumerics \cup NoteLetters

\* the position __scan_next_token writes into its message, with the column
\* counter col as it stands after __advance
UnrecognizedIndex(ln, col) == ScriptIndex(ln + 1, col + 1)

ScanUnrecognized ==
    /\ ScanLoop
    /\ Scanner_advance_char(scanner_current) \notin Recognized
    /\ start_of_token' = scanner_current
    /\ scanner_current' = scanner_current + 1
    /\ current_col' = current_col + 1
    /\ scanner_error_msg' = [msg |-> "Unrecognized character",
                             at |-> UnrecognizedIndex(current_ln, current_col + 1),
                             char |-> Scanner_advance_char(scanner_current)]
    /\ scanner_success' = FALSE
    /\ scanner_pc' = "done"
    /\ UNCHANGED <<text, current_ln, tokens>>
    /\ UNCHANGED <<parser_vars, env_vars, cli_vars>>

ScanFinish ==
    /\ scanner_pc = "scanning"
    /\ Scanner_is_at_end(scanner_current)
    /\ scanner_error_msg' = [msg |-> "Text scanned successfully"]
    /\ scanner_success' = TRUE
    /\ scanner_pc' = "done"
    /\ UNCHANGED <<text, scanner_current, current_ln, current_col, start_of_token, tokens>>
    /\ UNCHANGED <<parser_vars, env_vars, cli_vars>>

ScannerNext ==
    \/ ScanWhitespace
    \/ ScanNewline
    \/ ScanComment
    \/ ScanTildes
    \/ ScanSingle
    \/ ScanNumber
    \/ ScanNoteLetter
    \/ ScanUnrecognized
    \/ ScanFinish

----------------------------------------------------------------------------
(* Scanner(t) run to its end, as a function of the text t: the same code as
   the actions above, used where the scans of two texts are compared *)

\* __newline(c) on the text t
newline_of(t, c, cur, ln) ==
    IF c = "\r" /\ cur >= Len(t)
    THEN [current |-> cur, ln |-> ln + 1, col |-> 0, raised |-> "IndexError"]
    ELSE IF c = "\r" /\ t[cur + 1] = "\n"
    THEN [current |-> cur + 1, ln |-> ln + 1, col |-> 1, raised |-> None]
    ELSE [current |-> cur, ln |-> ln + 1, col |-> 0, raised |-> None]

\* __comment on the text t
RECURSIVE comment_of(_, _, _, _)
comment_of(t, cur, ln, col) ==
    IF cur >= Len(t)
    THEN [current |-> cur, ln |-> ln, col |-> col, raised |-> None]
    ELSE LET c == t[cur + 1]
         IN IF c \in {"\r", "\n"}
            THEN newline_of(t, c, cur + 1, ln)
            ELSE comment_of(t, cur + 1, ln, col + 1)

\* the loop of __number on the text t
RECURSIVE number_end_of(_, _)
number_end_of(t, cur) ==
    IF cur >= Len(t) \/ ~isnumeric(t[cur + 1]) THEN cur
    ELSE number_end_of(t, cur + 1)

\* the loop of __tildes on the text t
RECURSIVE tildes_end_of(_, _)
tildes_end_of(t, cur) ==
    IF cur >= Len(t) \/ t[cur + 1] # "~" THEN cur
    ELSE tildes_end_of(t, cur + 1)

\* __add_token for the token text[start:end], with the column counter at col
add_token_of(t, s, token_type, value, end, col) ==
    LET raw == SubSeq(t, s.current + 1, end)
    IN [s EXCEPT !.current = end, !.col = col,
                 !.tokens = Append(s.tokens,
                              Token(token_type, value, raw,
                                    ScriptIndex(s.ln + 1, col - Len(raw) + 1)))]

\* one call of __scan_next_token in the Scanner state s
scan_next_token(t, s) ==
    LET c == t[s.current + 1]
        cur == s.current + 1
        col == s.col + 1
    IN CASE c \in {" ", "\t"} -> [s EXCEPT !.current = cur, !.col = col]
         [] c \in {"\r", "\n"} ->
              LET r == newline_of(t, c, cur, s.ln)
              IN [s EXCEPT !.current = r.current, !.ln = r.ln, !.col = r.col,
                           !.raised = r.raised]
         [] c = "#" ->
              LET r == comment_of(t, cur, s.ln, col)
              IN [s EXCEPT !.current = r.current, !.ln = r.ln, !.col = r.col,
                           !.raised = r.raised]
         [] c = "~" ->
              LET end == tildes_end_of(t, cur)
              IN add_token_of(t, s, LENGTH_EXT, end - s.current, end,
                              s.col + (end - s.current))
         [] c \in SingleChars -> add_token_of(t, s, SingleCharType(c), None, cur, col)
         [] isnumeric(c) ->
              LET end == number_end_of(t, cur)
              IN IF int_raises(SubSeq(t, s.current + 1, end))
                 THEN [s EXCEPT !.current = end, !.col = s.col + (end - s.current),
                                !.raised = "ValueError"]
                 ELSE add_token_of(t, s, NUMBER, int(SubSeq(t, s.current + 1, end)),
                                   end, s.col + (end - s.current))
         [] c \in NoteLetters -> add_token_of(t, s, NOTE_LETTER, c, cur, col)
         [] OTHER ->
              [s EXCEPT !.current = cur, !.col = col, !.success = FALSE,
                        !.pc = "done",
                        !.error_msg = [msg |-> "Unrecognized character",
                                       at |-> UnrecognizedIndex(s.ln, col),
                                       char |-> c]]

\* the loop of __try_scan_tokens from the Scanner state s
RECURSIVE scan_tokens_from(_, _)
scan_tokens_from(t, s) ==
    IF s.pc # "scanning" THEN s
    ELSE IF s.raised # None THEN [s EXCEPT !.pc = "raised"]
    ELSE IF s.current >= Len(t)
    THEN [s EXCEPT !.success = TRUE, !.pc = "done", !.error_msg = [msg |-> "Text scanned successfully"]]
    ELSE scan_tokens_from(t, scan_next_token(t, s))

\* Scanner(t): the fields of the object after __init__; pc is "raised" when
\* __init__ raised, and success is then unset
Scanner(t) ==
    scan_tokens_from(t, [current |-> 0, ln |-> 0, col |-> 0, tokens |-> <<>>,
                         error_msg |-> [msg |-> "Incomplete"],
                         success |-> "unset", raised |-> None, pc |-> "scanning"])

----------------------------------------------------------------------------
(* Python floats: IEEE-754 binary64, round to nearest, ties to even.       *)
(* A non-negative double is [m, e], standing for m * 2^e, with m a natural *)
(* number of at most 53 significant bits held as little-endian limbs.      *)

LimbBits == 14
LimbBase == 16384
MantissaBits == 53

RECURSIVE Pow2(_)
Pow2(n) == IF n = 0 THEN 1 ELSE 2 * Pow2(n - 1)

RECURSIVE BigNorm(_)
BigNorm(a) ==
    IF Len(a) > 0 /\ a[Len(a)] = 0 THEN BigNorm(SubSeq(a, 1, Len(a) - 1)) ELSE a

RECURSIVE BigFromInt(_)
BigFromInt(n) ==
    IF n = 0 THEN <<>> ELSE <<n % LimbBase>> \o BigFromInt(n \div LimbBase)

RECURSIVE BigToInt(_)
BigToInt(a) ==
    IF Len(a) = 0 THEN 0 ELSE a[1] + LimbBase * BigToInt(Tail(a))

RECURSIVE BigMulColumn(_, _, _, _)
BigMulColumn(a, b, k, i) ==
    IF i > Len(a) THEN 0
    ELSE (IF k + 1 - i >= 1 /\ k + 1 - i <= Len(b) THEN a[i] * b[k + 1 - i] ELSE 0)
         + BigMulColumn(a, b, k, i + 1)

RECURSIVE BigMulFrom(_, _, _, _)
BigMulFrom(a, b, k, carry) ==
    IF k > Len(a) + Len(b) THEN <<>>
    ELSE LET s == BigMulColumn(a, b, k, 1) + carry
         IN <<s % LimbBase>> \o BigMulFrom(a, b, k + 1, s \div LimbBase)

BigMul(a, b) == BigNorm(BigMulFrom(a, b, 1, 0))

\* quotient and remainder of a by a small d, from the most significant limb down
RECURSIVE BigDivSmallFrom(_, _, _, _)
BigDivSmallFrom(a, d, i, r) ==
    IF i = 0 THEN [q |-> <<>>, r |-> r]
    ELSE LET cur == r * LimbBase + a[i]
             rest == BigDivSmallFrom(a, d, i - 1, cur % d)
         IN [q |-> Append(rest.q, cur \div d), r |-> rest.r]

BigDivSmall(a, d) ==
    LET qr == BigDivSmallFrom(a, d, Len(a), 0)
    IN [q |-> BigNorm(qr.q), r |-> qr.r]

RECURSIVE IntBitLen(_)
IntBitLen(n) == IF n = 0 THEN 0 ELSE 1 + IntBitLen(n \div 2)

BigBitLen(a) == IF Len(a) = 0 THEN 0 ELSE LimbBits * (Len(a) - 1) + IntBitLen(a[Len(a)])

\* a div 2^s
BigShiftRight(a, s) ==
    LET ls == s \div LimbBits
        bs == s % LimbBits
    IN BigNorm([j \in 1..(IF Len(a) > ls THEN Len(a) - ls ELSE 0) |->
                  (a[j + ls] \div Pow2(bs))
                  + (IF j + ls + 1 <= Len(a)
                     THEN (a[j + ls + 1] % Pow2(bs)) * Pow2(LimbBits - bs) ELSE 0)])

\* a * 2^s
BigShiftLeft(a, s) ==
    IF Len(a) = 0 THEN <<>>
    ELSE [j \in 1..(s \div LimbBits) |-> 0] \o BigMul(a, <<Pow2(s % LimbBits)>>)

\* a mod 2^s
BigLowBits(a, s) ==
    LET ls == s \div LimbBits
        bs == s % LimbBits
    IN BigNorm([j \in 1..(IF Len(a) > ls THEN ls + 1 ELSE Len(a)) |->
                  IF j <= ls THEN a[j] ELSE a[j] % Pow2(bs)])

BigBit(a, i) ==
    IF i \div LimbBits + 1 > Len(a) THEN 0
    ELSE (a[i \div LimbBits + 1] \div Pow2(i % LimbBits)) % 2

RECURSIVE BigInc(_)
BigInc(a) ==
    IF Len(a) = 0 THEN <<1>>
    ELSE IF a[1] + 1 < LimbBase THEN <<a[1] + 1>> \o Tail(a)
    ELSE <<0>> \o BigInc(Tail(a))

\* a < b, both without leading zero limbs
RECURSIVE BigLess(_, _)
BigLess(a, b) ==
    IF Len(a) # Len(b) THEN Len(a) < Len(b)
    ELSE IF Len(a) = 0 THEN FALSE
    ELSE IF a[Len(a)] # b[Len(b)] THEN a[Len(a)] < b[Len(b)]
    ELSE BigLess(BigNorm(SubSeq(a, 1, Len(a) - 1)), BigNorm(SubSeq(b, 1, Len(b) - 1)))

\* the double nearest to m * 2^e, m having s bits beyond the 53 of a mantissa;
\* sticky: a non-zero part below m was dropped
RoundShifted(m, sticky, e, s, q) ==
    IF BigBit(m, s - 1) = 1
         /\ (sticky \/ BigBit(q, 0) = 1 \/ Len(BigLowBits(m, s - 1)) # 0)
    THEN [m |-> BigInc(q), e |-> e + s]
    ELSE [m |-> q, e |-> e + s]

RoundBits(m, sticky, e, s) ==
    IF s <= 0 THEN [m |-> m, e |-> e]
    ELSE RoundShifted(m, sticky, e, s, BigShiftRight(m, s))

RoundToDouble(m, sticky, e) == RoundBits(m, sticky, e, BigBitLen(m) - MantissaBits)

\* float(n) of an int n, 0 <= n < 2^31
float(n) == [m |-> BigFromInt(n), e |-> 0]

\* a / b of two ints, 0 <= a < 2^31, 0 < b < 2^16
truediv(a, b) ==
    LET qr == BigDivSmall(<<0, 0, 0, 0, 0>> \o BigFromInt(a), b)
    IN RoundToDouble(qr.q, qr.r # 0, -5 * LimbBits)

\* x * y
fmul(x, y) == RoundToDouble(BigMul(x.m, y.m), FALSE, x.e + y.e)

\* x % 1 of a non-negative double (exact)
fmod1(x) ==
    IF x.e >= 0 THEN [m |-> <<>>, e |-> 0]
    ELSE [m |-> BigLowBits(x.m, -x.e), e |-> x.e]

\* x < y
fless(x, y) ==
    LET e == IF x.e < y.e THEN x.e ELSE y.e
    IN BigLess(BigShiftLeft(x.m, x.e - e), BigShiftLeft(y.m, y.e - e))

\* int(x) of a non-negative double: truncation
trunc(x) ==
    IF x.e >= 0 THEN BigToInt(x.m) * Pow2(x.e)
    ELSE IF -x.e >= BigBitLen(x.m) THEN 0
    ELSE BigToInt(BigShiftRight(x.m, -x.e))

\* 2**(k / 12) for the int k = note_num - 69, as the double Python computes
pow2_twelfths(k) ==
    CASE k = -70 -> [m |-> <<5825, 3871, 6572, 1149>>, e |-> -58]
      [] k = -69 -> [m |-> <<14101, 10438, 12256, 1217>>, e |-> -58]
      [] k = -68 -> [m |-> <<14661, 13082, 1303, 645>>, e |-> -57]
      [] k = -67 -> [m |-> <<11359, 9155, 14352, 1366>>, e |-> -58]
      [] k = -66 -> [m |-> <<15309, 6652, 2534, 1448>>, e |-> -58]
      [] k = -65 -> [m |-> <<4015, 7587, 4365, 1534>>, e |-> -58]
      [] k = -64 -> [m |-> <<14111, 2682, 12277, 812>>, e |-> -57]
      [] k = -63 -> [m |-> <<5037, 9579, 2553, 1722>>, e |-> -58]
      [] k = -62 -> [m |-> <<6181, 935, 1148, 228>>, e |-> -55]
      [] k = -61 -> [m |-> <<4933, 7232, 894, 1933>>, e |-> -58]
      [] k = -60 -> [m |-> <<1>>, e |-> -5]
      [] k = -59 -> [m |-> <<15537, 9650, 7292, 542>>, e |-> -56]
      [] k = -58 -> [m |-> <<5825, 3871, 6572, 1149>>, e |-> -57]
      [] k = -57 -> [m |-> <<14101, 10438, 12256, 1217>>, e |-> -57]
      [] k = -56 -> [m |-> <<14661, 13082, 1303, 645>>, e |-> -56]
      [] k = -55 -> [m |-> <<11359, 9155, 14352, 1366>>, e |-> -57]
      [] k = -54 -> [m |-> <<15309, 6652, 2534, 1448>>, e |-> -57]
      [] k = -53 -> [m |-> <<4015, 7587, 4365, 1534>>, e |-> -57]
      [] k = -52 -> [m |-> <<14111, 2682, 12277, 812>>, e |-> -56]
      [] k = -51 -> [m |-> <<5037, 9579, 2553, 1722>>, e |-> -57]
      [] k = -50 -> [m |-> <<6181, 935, 1148, 228>>, e |-> -54]
      [] k = -49 -> [m |-> <<4933, 7232, 894, 1933>>, e |-> -57]
      [] k = -48 -> [m |-> <<1>>, e |-> -4]
      [] k = -47 -> [m |-> <<14691, 2917, 14585, 1084>>, e |-> -56]
      [] k = -46 -> [m |-> <<5823, 3871, 6572, 1149>>, e |-> -56]
      [] k = -45 -> [m |-> <<14101, 10438, 12256, 1217>>, e |-> -56]
      [] k = -44 -> [m |-> <<12939, 9781, 2607, 1290>>, e |-> -56]
      [] k = -43 -> [m |-> <<11357, 9155, 14352, 1366>>, e |-> -56]
      [] k = -42 -> [m |-> <<15309, 6652, 2534, 1448>>, e |-> -56]
      [] k = -41 -> [m |-> <<4017, 7587, 4365, 1534>>, e |-> -56]
      [] k = -40 -> [m |-> <<7055, 9533, 6138, 406>>, e |-> -54]
      [] k = -39 -> [m |-> <<5037, 9579, 2553, 1722>>, e |-> -56]
      [] k = -38 -> [m |-> <<8341, 3741, 4592, 912>>, e |-> -55]
      [] k = -37 -> [m |-> <<4931, 7232, 894, 1933>>, e |-> -56]
      [] k = -36 -> [m |-> <<1>>, e |-> -3]
      [] k = -35 -> [m |-> <<14691, 2917, 14585, 1084>>, e |-> -55]
      [] k = -34 -> [m |-> <<5823, 3871, 6572, 1149>>, e |-> -55]
      [] k = -33 -> [m |-> <<14101, 10438, 12256, 1217>>, e |-> -55]
      [] k = -32 -> [m |-> <<12939, 9781, 2607, 1290>>, e |-> -55]
      [] k = -31 -> [m |-> <<11357, 9155, 14352, 1366>>, e |-> -55]
      [] k = -30 -> [m |-> <<15309, 6652, 2534, 1448>>, e |-> -55]
      [] k = -29 -> [m |-> <<4017, 7587, 4365, 1534>>, e |-> -55]
      [] k = -28 -> [m |-> <<7055, 9533, 6138, 406>>, e |-> -53]
      [] k = -27 -> [m |-> <<5037, 9579, 2553, 1722>>, e |-> -55]
      [] k = -26 -> [m |-> <<8341, 3741, 4592, 912>>, e |-> -54]
      [] k = -25 -> [m |-> <<4931, 7232, 894, 1933>>, e |-> -55]
      [] k = -24 -> [m |-> <<1>>, e |-> -2]
      [] k = -23 -> [m |-> <<14691, 2917, 14585, 1084>>, e |-> -54]
      [] k = -22 -> [m |-> <<8027, 11324, 15718, 17>>, e |-> -48]
      [] k = -21 -> [m |-> <<14101, 10438, 12256, 1217>>, e |-> -54]
      [] k = -20 -> [m |-> <<12939, 9781, 2607, 1290>>, e |-> -54]
      [] k = -19 -> [m |-> <<13871, 4577, 7176, 683>>, e |-> -53]
      [] k = -18 -> [m |-> <<15309, 6652, 2534, 1448>>, e |-> -54]
      [] k = -17 -> [m |-> <<3323, 13786, 14608, 95>>, e |-> -50]
      [] k = -16 -> [m |-> <<11837, 5365, 8170, 1625>>, e |-> -54]
      [] k = -15 -> [m |-> <<5037, 9579, 2553, 1722>>, e |-> -54]
      [] k = -14 -> [m |-> <<297, 7483, 9184, 1824>>, e |-> -54]
      [] k = -13 -> [m |-> <<1233, 10000, 4319, 483>>, e |-> -52]
      [] k = -12 -> [m |-> <<1>>, e |-> -1]
      [] k = -11 -> [m |-> <<14691, 2917, 14585, 1084>>, e |-> -53]
      [] k = -10 -> [m |-> <<8027, 11324, 15718, 17>>, e |-> -47]
      [] k = -9 -> [m |-> <<14101, 10438, 12256, 1217>>, e |-> -53]
      [] k = -8 -> [m |-> <<12939, 9781, 2607, 1290>>, e |-> -53]
      [] k = -7 -> [m |-> <<13871, 4577, 7176, 683>>, e |-> -52]
      [] k = -6 -> [m |-> <<15309, 6652, 2534, 1448>>, e |-> -53]
      [] k = -5 -> [m |-> <<3323, 13786, 14608, 95>>, e |-> -49]
      [] k = -4 -> [m |-> <<11837, 5365, 8170, 1625>>, e |-> -53]
      [] k = -3 -> [m |-> <<5037, 9579, 2553, 1722>>, e |-> -53]
      [] k = -2 -> [m |-> <<297, 7483, 9184, 1824>>, e |-> -53]
      [] k = -1 -> [m |-> <<1233, 10000, 4319, 483>>, e |-> -51]
      [] k = 0 -> [m |-> <<1>>, e |-> 0]
      [] k = 1 -> [m |-> <<14691, 2917, 14585, 1084>>, e |-> -52]
      [] k = 2 -> [m |-> <<8027, 11324, 15718, 17>>, e |-> -46]
      [] k = 3 -> [m |-> <<14101, 10438, 12256, 1217>>, e |-> -52]
      [] k = 4 -> [m |-> <<12939, 9781, 2607, 1290>>, e |-> -52]
      [] k = 5 -> [m |-> <<13871, 4577, 7176, 683>>, e |-> -51]
      [] k = 6 -> [m |-> <<15309, 6652, 2534, 1448>>, e |-> -52]
      [] k = 7 -> [m |-> <<3323, 13786, 14608, 95>>, e |-> -48]
      [] k = 8 -> [m |-> <<7055, 9533, 6138, 406>>, e |-> -50]
      [] k = 9 -> [m |-> <<5037, 9579, 2553, 1722>>, e |-> -52]
      [] k = 10 -> [m |-> <<297, 7483, 9184, 1824>>, e |-> -52]
      [] k = 11 -> [m |-> <<4931, 7232, 894, 1933>>, e |-> -52]
      [] k = 12 -> [m |-> <<1>>, e |-> 1]
      [] k = 13 -> [m |-> <<14691, 2917, 14585, 1084>>, e |-> -51]
      [] k = 14 -> [m |-> <<8027, 11324, 15718, 17>>, e |-> -45]
      [] k = 15 -> [m |-> <<14101, 10438, 12256, 1217>>, e |-> -51]
      [] k = 16 -> [m |-> <<12939, 9781, 2607, 1290>>, e |-> -51]
      [] k = 17 -> [m |-> <<13871, 4577, 7176, 683>>, e |-> -50]
      [] k = 18 -> [m |-> <<15309, 6652, 2534, 1448>>, e |-> -51]
      [] k = 19 -> [m |-> <<3323, 13786, 14608, 95>>, e |-> -47]
      [] k = 20 -> [m |-> <<11837, 5365, 8170, 1625>>, e |-> -51]
      [] k = 21 -> [m |-> <<5037, 9579, 2553, 1722>>, e |-> -51]
      [] k = 22 -> [m |-> <<297, 7483, 9184, 1824>>, e |-> -51]
      [] k = 23 -> [m |-> <<1233, 10000, 4319, 483>>, e |-> -49]
      [] k = 24 -> [m |-> <<1>>, e |-> 2]
      [] k = 25 -> [m |-> <<14691, 2917, 14585, 1084>>, e |-> -50]
      [] k = 26 -> [m |-> <<5823, 3871, 6572, 1149>>, e |-> -50]
      [] k = 27 -> [m |-> <<14101, 10438, 12256, 1217>>, e |-> -50]
      [] k = 28 -> [m |-> <<12939, 9781, 2607, 1290>>, e |-> -50]
      [] k = 29 -> [m |-> <<11357, 9155, 14352, 1366>>, e |-> -50]
      [] k = 30 -> [m |-> <<15309, 6652, 2534, 1448>>, e |-> -50]
      [] k = 31 -> [m |-> <<4017, 7587, 4365, 1534>>, e |-> -50]
      [] k = 32 -> [m |-> <<7055, 9533, 6138, 406>>, e |-> -48]
      [] k = 33 -> [m |-> <<5037, 9579, 2553, 1722>>, e |-> -50]
      [] k = 34 -> [m |-> <<8341, 3741, 4592, 912>>, e |-> -49]
      [] k = 35 -> [m |-> <<4931, 7232, 894, 1933>>, e |-> -50]
      [] k = 36 -> [m |-> <<1>>, e |-> 3]
      [] k = 37 -> [m |-> <<14691, 2917, 14585, 1084>>, e |-> -49]
      [] k = 38 -> [m |-> <<5823, 3871, 6572, 1149>>, e |-> -49]
      [] k = 39 -> [m |-> <<14101, 10438, 12256, 1217>>, e |-> -49]
      [] k = 40 -> [m |-> <<12939, 9781, 2607, 1290>>, e |-> -49]
      [] k = 41 -> [m |-> <<11357, 9155, 14352, 1366>>, e |-> -49]
      [] k = 42 -> [m |-> <<15309, 6652, 2534, 1448>>, e |-> -49]
      [] k = 43 -> [m |-> <<4017, 7587, 4365, 1534>>, e |-> -49]
      [] k = 44 -> [m |-> <<7055, 9533, 6138, 406>>, e |-> -47]
      [] k = 45 -> [m |-> <<5037, 9579, 2553, 1722>>, e |-> -49]
      [] k = 46 -> [m |-> <<8341, 3741, 4592, 912>>, e |-> -48]
      [] k = 47 -> [m |-> <<4931, 7232, 894, 1933>>, e |-> -49]
      [] k = 48 -> [m |-> <<1>>, e |-> 4]
      [] k = 49 -> [m |-> <<15537, 9650, 7292, 542>>, e |-> -47]
      [] k = 50 -> [m |-> <<5825, 3871, 6572, 1149>>, e |-> -48]
      [] k = 51 -> [m |-> <<14101, 10438, 12256, 1217>>, e |-> -48]

----------------------------------------------------------------------------
(* SignalGenerator / PulseGenerator, signal_generator.py *)

\* PulseGenerator._next_sample_internal
next_sample_internal(wave_position, pulse) ==
    IF fless(wave_position, pulse) THEN 1 ELSE -1

\* SignalGenerator.next_sample: the sample produced when elapsed samples have gone by
next_sample(elapsed, rate, f, pulse) ==
    LET time == truediv(elapsed, rate)
        wave_position == fmod1(fmul(time, f))
    IN next_sample_internal(wave_position, pulse)

----------------------------------------------------------------------------
(* TFSEnvironment, tfs_env.py.  Gains and samples are in hundredths.       *)

DefaultBpm == 120
DefaultGain == 25
InitialFreq == 440

\* set_bpm that keeps the old tempo
set_bpm_ignored(b) == bpm

\* TFSEnvironment.set_bpm: the tempo after set_bpm(b)
set_bpm(b) == IF b > 0 THEN b ELSE bpm

\* set_gain testing the interval [0, 1) in place of range(0, 1)
set_gain_interval(g) == IF 0 <= g /\ g < 100 THEN g ELSE gain

\* set_gain without the test of the range
set_gain_unchecked(g) == g

\* TFSEnvironment.set_gain: the gain after set_gain(g), g in hundredths;
\* range(0, 1) holds the single int 0
set_gain(g) == IF g \in 0..(1 - 1) THEN g ELSE gain

get_freq(note_num) == fmul(pow2_twelfths(note_num - 69), float(440))

\* __get_num_samples truncating after the multiplication by 4
get_num_samples_late_trunc(rate, tempo, beat_divisor, duration) ==
    trunc(fmul(fmul(fmul(float(rate), truediv(60, tempo)), truediv(duration, beat_divisor)),
               float(4)))

get_num_samples(rate, tempo, beat_divisor, duration) ==
    trunc(fmul(fmul(float(rate), truediv(60, tempo)), truediv(duration, beat_divisor))) * 4

\* TFSEnvironment.note: the returned list and the generator's state after it
note(note_num, beat_divisor, duration) ==
    LET f == get_freq(note_num)
        num_samples == get_num_samples(sample_rate, bpm, beat_divisor, duration)
    IN [samples |-> [i \in 1..num_samples |->
                       next_sample(samples_elapsed + i - 1, sample_rate, f, pulse_percent) * gain],
        freq |-> f,
        samples_elapsed |-> samples_elapsed + num_samples]

\* rest that draws its samples from the generator and silences them
rest_advancing(beat_divisor, duration) ==
    LET num_samples == get_num_samples(sample_rate, bpm, beat_divisor, duration)
    IN [samples |-> [i \in 1..num_samples |-> 0],
        freq |-> freq,
        samples_elapsed |-> samples_elapsed + num_samples]

\* TFSEnvironment.rest: the returned list; the generator is not touched
rest(beat_divisor, duration) ==
    LET num_samples == get_num_samples(sample_rate, bpm, beat_divisor, duration)
    IN [samples |-> [i \in 1..num_samples |-> 0],
        freq |-> freq,
        samples_elapsed |-> samples_elapsed]

NoteCall(note_num, beat_divisor, duration) ==
    [fn |-> "note", note_num |-> note_num, beat_divisor |-> beat_divisor,
     duration |-> duration, bpm |-> bpm]

SetBpmCall(b) == [fn |-> "set_bpm", arg |-> b]

SetGainCall(g) == [fn |-> "set_gain", arg |-> g]

RestCall(beat_divisor, duration) ==
    [fn |-> "rest", note_num |-> None, beat_divisor |-> beat_divisor,
     duration |-> duration, bpm |-> bpm]

----------------------------------------------------------------------------
(* Parser, tfs_script.py:60-238 *)

MAX_OCTAVE == 9
MIN_OCTAVE == 0
InitialOctave == 5

\* a slip in the table: a gets the offset of a sharp
NOTE_NUM_OFFSETS_a_sharp ==
    [l \in NoteLetters |->
        CASE l = "a" -> 10 [] l = "b" -> 11 [] l = "c" -> 0 [] l = "d" -> 2
          [] l = "e" -> 4 [] l = "f" -> 5 [] l = "g" -> 7]

NOTE_NUM_OFFSETS ==
    [l \in NoteLetters |->
        CASE l = "a" -> 9 [] l = "b" -> 11 [] l = "c" -> 0 [] l = "d" -> 2
          [] l = "e" -> 4 [] l = "f" -> 5 [] l = "g" -> 7]

min(a, b) == IF a < b THEN a ELSE b
max(a, b) == IF a > b THEN a ELSE b

Parser_is_at_end(cur) == cur >= Len(tokens)

\* __try_peek with __current = cur
try_peek(cur) ==
    IF cur < Len(tokens) THEN [found |-> TRUE, token |-> tokens[cur + 1]]
    ELSE [found |-> FALSE, token |-> None]

\* __optional_param with __current = cur; current is __current after the call
optional_param(cur, expected_type) ==
    LET p == try_peek(cur)
    IN IF p.found /\ p.token.token_type = expected_type
       THEN [found |-> TRUE, token |-> p.token, current |-> cur + 1]
       ELSE [found |-> FALSE, token |-> None, current |-> cur]

\* __required_param citing the token it found (or nothing) in place of the
\* token that precedes the missing one
required_param_cites_found(preceeding_token, cur, expected_type) ==
    LET p == try_peek(cur)
    IN IF p.found
       THEN IF p.token.token_type = expected_type
            THEN [found |-> TRUE, token |-> p.token, current |-> cur + 1,
                  error_msg |-> parser_error_msg]
            ELSE [found |-> FALSE, token |-> p.token, current |-> cur,
                  error_msg |-> [msg |-> "Unexpected token after",
                                 after |-> p.token.token_type,
                                 at |-> p.token.script_index,
                                 found |-> p.token.token_type,
                                 expected |-> expected_type]]
       ELSE [found |-> FALSE, token |-> None, current |-> cur,
             error_msg |-> [msg |-> "Missing token after",
                            after |-> None,
                            at |-> ScriptIndex(0, 0),
                            expected |-> expected_type]]

\* __required_param with __current = cur; error_msg is the message it leaves
required_param(preceeding_token, cur, expected_type) ==
    LET p == try_peek(cur)
    IN IF p.found
       THEN IF p.token.token_type = expected_type
            THEN [found |-> TRUE, token |-> p.token, current |-> cur + 1,
                  error_msg |-> parser_error_msg]
            ELSE [found |-> FALSE, token |-> p.token, current |-> cur,
                  error_msg |-> [msg |-> "Unexpected token after",
                                 after |-> preceeding_token.token_type,
                                 at |-> preceeding_token.script_index,
                                 found |-> p.token.token_type,
                                 expected |-> expected_type]]
       ELSE [found |-> FALSE, token |-> None, current |-> cur,
             error_msg |-> [msg |-> "Missing token after",
                            after |-> preceeding_token.token_type,
                            at |-> preceeding_token.script_index,
                            expected |-> expected_type]]

\* the outcome of a construct: ok (True / False returned), raised (an exception),
\* the Parser's __current and error_msg after it and the call it makes on the
\* environment; the actions bind it with \E so that it is evaluated once
Outcome(ok, raised, cur, msg, call) ==
    [ok |-> ok, raised |-> raised, current |-> cur, error_msg |-> msg, call |-> call]

\* __note citing the note letter in the error of a zero divisor
note_construct_cites_letter(note_letter_token, cur) ==
    LET note_letter == note_letter_token.value
        sharp == optional_param(cur, SHARP)
        flat == optional_param(sharp.current, FLAT)
        base == (octave * 12) + NOTE_NUM_OFFSETS[note_letter]
        note_num == IF sharp.found THEN base + 1
                    ELSE IF flat.found THEN base - 1 ELSE base
        cur1 == IF sharp.found THEN sharp.current ELSE flat.current
        div == required_param(note_letter_token, cur1, NUMBER)
        ext == optional_param(div.current, LENGTH_EXT)
        duration == IF ext.found THEN 1 + ext.token.value ELSE 1
    IN IF note_letter \notin DOMAIN NOTE_NUM_OFFSETS
       THEN Outcome(FALSE, None, cur,
                    [msg |-> "Unrecognized note letter",
                     at |-> note_letter_token.script_index, letter |-> note_letter], None)
       ELSE IF ~div.found
       THEN Outcome(FALSE, None, div.current, div.error_msg, None)
       ELSE IF ~(div.token.value > 0)
       THEN Outcome(FALSE, None, div.current,
                    [msg |-> "Measure divisor must be greater than 0",
                     at |-> note_letter_token.script_index], None)
       ELSE Outcome(TRUE, None, ext.current, parser_error_msg,
                    NoteCall(note_num, div.token.value, duration))

\* Parser.__note with __current = cur (the note letter already consumed)
note_construct(note_letter_token, cur) ==
    LET note_letter == note_letter_token.value
        sharp == optional_param(cur, SHARP)
        flat == optional_param(sharp.current, FLAT)
        base == (octave * 12) + NOTE_NUM_OFFSETS[note_letter]
        note_num == IF sharp.found THEN base + 1
                    ELSE IF flat.found THEN base - 1 ELSE base
        cur1 == IF sharp.found THEN sharp.current ELSE flat.current
        div == required_param(note_letter_token, cur1, NUMBER)
        ext == optional_param(div.current, LENGTH_EXT)
        duration == IF ext.found THEN 1 + ext.token.value ELSE 1
    IN IF note_letter \notin DOMAIN NOTE_NUM_OFFSETS
       THEN Outcome(FALSE, None, cur,
                    [msg |-> "Unrecognized note letter",
                     at |-> note_letter_token.script_index, letter |-> note_letter], None)
       ELSE IF ~div.found
       THEN Outcome(FALSE, None, div.current, div.error_msg, None)
       ELSE IF ~(div.token.value > 0)
       THEN Outcome(FALSE, None, div.current,
                    [msg |-> "Measure divisor must be greater than 0",
                     at |-> div.token.script_index], None)
       ELSE Outcome(TRUE, None, ext.current, parser_error_msg,
                    NoteCall(note_num, div.token.value, duration))

\* Parser.__rest with __current = cur (the rest token already consumed);
\* Token(length_ext_token) raises TypeError: Token.__init__ takes no argument
rest_construct(rest_token, cur) ==
    LET div == required_param(rest_token, cur, NUMBER)
        ext == optional_param(div.current, LENGTH_EXT)
    IN IF ~div.found
       THEN Outcome(FALSE, None, div.current, div.error_msg, None)
       ELSE IF ~(div.token.value > 0)
       THEN Outcome(FALSE, None, div.current,
                    [msg |-> "Measure divisor must be greater than 0",
                     at |-> div.token.script_index], None)
       ELSE IF ext.found
       THEN Outcome(FALSE, "TypeError", ext.current, parser_error_msg, None)
       ELSE Outcome(TRUE, None, ext.current, parser_error_msg,
                    RestCall(div.token.value, 1))

\* __octave_change without the clamp
octave_change_unclamped(token) ==
    IF token.token_type = OCT_UP THEN octave + 1
    ELSE IF token.token_type = OCT_DN THEN octave - 1
    ELSE octave

\* Parser.__octave_change
octave_change(token) ==
    IF token.token_type = OCT_UP THEN min(MAX_OCTAVE, octave + 1)
    ELSE IF token.token_type = OCT_DN THEN max(MIN_OCTAVE, octave - 1)
    ELSE octave

\* guard of one iteration of the loop of __try_parse_tokens
ParseLoop == parser_pc = "parsing" /\ ~Parser_is_at_end(parser_current)

\* the token __advance returns in __parse_next_token
Parser_advance_token == tokens[parser_current + 1]

\* the Parser's fields after a construct with outcome r; a False return ends
\* __try_parse_tokens, an exception leaves Parser.__init__ before success is set
ApplyOutcome(r) ==
    /\ parser_current' = r.current
    /\ parser_error_msg' = r.error_msg
    /\ parser_success' = IF r.raised = None /\ ~r.ok THEN FALSE ELSE parser_success
    /\ parser_pc' = IF r.raised # None THEN "raised"
                    ELSE IF r.ok THEN "parsing" ELSE "done"
    /\ exception' = r.raised

ParseNote ==
    /\ ParseLoop
    /\ Parser_advance_token.token_type = NOTE_LETTER
    /\ \E r \in {note_construct(Parser_advance_token, parser_current + 1)} :
          /\ ApplyOutcome(r)
          /\ IF r.ok
             THEN \E n \in {note(r.call.note_num, r.call.beat_divisor, r.call.duration)} :
                     /\ samples' = samples \o n.samples
                     /\ returned' = n.samples
                     /\ freq' = n.freq
                     /\ samples_elapsed' = n.samples_elapsed
                     /\ calls' = Append(calls, r.call)
             ELSE UNCHANGED <<samples, returned, freq, samples_elapsed, calls>>
    /\ UNCHANGED <<octave, sample_rate, bpm, gain, pulse_percent, exit_code, output>>
    /\ UNCHANGED scanner_vars

ParseRest ==
    /\ ParseLoop
    /\ Parser_advance_token.token_type = REST
    /\ \E r \in {rest_construct(Parser_advance_token, parser_current + 1)} :
          /\ ApplyOutcome(r)
          /\ IF r.ok
             THEN \E n \in {rest(r.call.beat_divisor, r.call.duration)} :
                     /\ samples' = samples \o n.samples
                     /\ returned' = n.samples
                     /\ freq' = n.freq
                     /\ samples_elapsed' = n.samples_elapsed
                     /\ calls' = Append(calls, r.call)
             ELSE UNCHANGED <<samples, returned, freq, samples_elapsed, calls>>
    /\ UNCHANGED <<octave, sample_rate, bpm, gain, pulse_percent, exit_code, output>>
    /\ UNCHANGED scanner_vars

ParseOctaveChange ==
    /\ ParseLoop
    /\ Parser_advance_token.token_type \in {OCT_UP, OCT_DN}
    /\ parser_current' = parser_current + 1
    /\ octave' = octave_change(Parser_advance_token)
    /\ UNCHANGED <<samples, parser_error_msg, parser_success, parser_pc>>
    /\ UNCHANGED <<scanner_vars, env_vars, cli_vars>>

\* Parser.__bpm_change with __current = cur (the BPM Change token already consumed)
bpm_change(bpm_change_token, cur) ==
    LET num == required_param(bpm_change_token, cur, NUMBER)
    IN IF ~num.found
       THEN Outcome(FALSE, None, num.current, num.error_msg, None)
       ELSE IF num.token.value > 0
       THEN Outcome(TRUE, None, num.current, parser_error_msg, SetBpmCall(num.token.value))
       ELSE Outcome(FALSE, None, num.current,
                    [msg |-> "BPM number must be greater than 0",
                     at |-> num.token.script_index], None)

ParseBpmChange ==
    /\ ParseLoop
    /\ Parser_advance_token.token_type = BPM_CHANGE
    /\ \E r \in {bpm_change(Parser_advance_token, parser_current + 1)} :
          /\ ApplyOutcome(r)
          /\ IF r.ok
             THEN /\ bpm' = set_bpm(r.call.arg)
                  /\ calls' = Append(calls, r.call)
             ELSE UNCHANGED <<bpm, calls>>
    /\ UNCHANGED <<octave, samples, sample_rate, gain, freq, samples_elapsed, pulse_percent,
                   returned, exit_code, output>>
    /\ UNCHANGED scanner_vars

\* the else branch skipping the token in place of failing
ParseUnexpected_skipping ==
    /\ ParseLoop
    /\ Parser_advance_token.token_type \notin {NOTE_LETTER, REST, OCT_UP, OCT_DN, BPM_CHANGE}
    /\ parser_current' = parser_current + 1
    /\ UNCHANGED <<octave, samples, parser_error_msg, parser_success, parser_pc>>
    /\ UNCHANGED <<scanner_vars, env_vars, cli_vars>>

\* the else branch of __parse_next_token
ParseUnexpected ==
    /\ ParseLoop
    /\ Parser_advance_token.token_type \notin {NOTE_LETTER, REST, OCT_UP, OCT_DN, BPM_CHANGE}
    /\ parser_current' = parser_current + 1
    /\ parser_error_msg' = [msg |-> "Unexpected token",
                            at |-> Parser_advance_token.script_index,
                            found |-> Parser_advance_token.token_type]
    /\ parser_success' = FALSE
    /\ parser_pc' = "done"
    /\ UNCHANGED <<octave, samples>>
    /\ UNCHANGED <<scanner_vars, env_vars, cli_vars>>

ParseFinish ==
    /\ parser_pc = "parsing"
    /\ Parser_is_at_end(parser_current)
    /\ parser_error_msg' = [msg |-> "Text parsed successfully"]
    /\ parser_success' = TRUE
    /\ parser_pc' = "done"
    /\ UNCHANGED <<parser_current, octave, samples>>
    /\ UNCHANGED <<scanner_vars, env_vars, cli_vars>>

----------------------------------------------------------------------------
(* tfs.py after Parser(...) returned, tfs.py:55-74 *)

ExitParserError ==
    /\ parser_pc = "done"
    /\ parser_success = FALSE
    /\ exit_code = -1
    /\ exit_code' = 52
    /\ UNCHANGED <<exception, output>>
    /\ UNCHANGED <<scanner_vars, parser_vars, env_vars>>

\* tfs.py without the test of parser.success: the samples are written anyway
WriteOutput_unchecked ==
    /\ parser_pc = "done"
    /\ exit_code = -1
    /\ ~output.written
    /\ output' = [written |-> TRUE, samples |-> samples]
    /\ UNCHANGED <<exception, exit_code>>
    /\ UNCHANGED <<scanner_vars, parser_vars, env_vars>>

\* the samples go to pywav.create_from_samples_mono when an output path is given
WriteOutput ==
    /\ parser_pc = "done"
    /\ parser_success = TRUE
    /\ exit_code = -1
    /\ ~output.written
    /\ output' = [written |-> TRUE, samples |-> samples]
    /\ UNCHANGED <<exception, exit_code>>
    /\ UNCHANGED <<scanner_vars, parser_vars, env_vars>>

ParserNext ==
    \/ ParseNote
    \/ ParseRest
    \/ ParseOctaveChange
    \/ ParseBpmChange
    \/ ParseUnexpected
    \/ ParseFinish
    \/ ExitParserError
    \/ WriteOutput

----------------------------------------------------------------------------
(* The environment called directly (no Parser) *)

MaxEnvCalls == 2

EnvSampleRates == {7, 11, 16}
EnvBpms == {0, 11, 45, 160}
EnvGains == {0, 50, 100, 150}
EnvNoteNums == {60, 69}
EnvDivisors == {4, 8}
EnvDurations == {1, 3}

EnvIdle == parser_pc = "idle" /\ scanner_pc = "idle" /\ Len(calls) < MaxEnvCalls

EnvSetBpm ==
    /\ EnvIdle
    /\ \E b \in EnvBpms :
         /\ bpm' = set_bpm(b)
         /\ calls' = Append(calls, SetBpmCall(b))
    /\ UNCHANGED <<sample_rate, gain, freq, samples_elapsed, pulse_percent, returned>>
    /\ UNCHANGED <<scanner_vars, parser_vars, cli_vars>>

EnvSetGain ==
    /\ EnvIdle
    /\ \E g \in EnvGains :
         /\ gain' = set_gain(g)
         /\ calls' = Append(calls, SetGainCall(g))
    /\ UNCHANGED <<sample_rate, bpm, freq, samples_elapsed, pulse_percent, returned>>
    /\ UNCHANGED <<scanner_vars, parser_vars, cli_vars>>

EnvNote ==
    /\ EnvIdle
    /\ \E note_num \in EnvNoteNums, d \in EnvDivisors, u \in EnvDurations :
         \E n \in {note(note_num, d, u)} :
            /\ returned' = n.samples
            /\ freq' = n.freq
            /\ samples_elapsed' = n.samples_elapsed
            /\ calls' = Append(calls, NoteCall(note_num, d, u))
    /\ UNCHANGED <<sample_rate, bpm, gain, pulse_percent>>
    /\ UNCHANGED <<scanner_vars, parser_vars, cli_vars>>

EnvRest ==
    /\ EnvIdle
    /\ \E d \in EnvDivisors, u \in EnvDurations :
         \E n \in {rest(d, u)} :
            /\ returned' = n.samples
            /\ freq' = n.freq
            /\ samples_elapsed' = n.samples_elapsed
            /\ calls' = Append(calls, RestCall(d, u))
    /\ UNCHANGED <<sample_rate, bpm, gain, pulse_percent>>
    /\ UNCHANGED <<scanner_vars, parser_vars, cli_vars>>

EnvNext ==
    \/ EnvSetBpm
    \/ EnvSetGain
    \/ EnvNote
    \/ EnvRest

----------------------------------------------------------------------------
(* The PulseGenerator called directly, signal_generator.py.  A sample is   *)
(* in hundredths, as are the samples of the environment.                   *)

MaxGenCalls == 4

GenSampleRates == {16, 196}
GenFreqs == {4, 49}
\* duty cycles, as numerator and denominator
GenPulses == {<<1, 8>>, <<1, 2>>}

\* SignalGenerator.reset: the elapsed-sample counter after it
reset == 0

\* set_freq that realigns the wave
set_freq_resetting(f) == [freq |-> float(f), samples_elapsed |-> 0]

\* SignalGenerator.set_freq: the generator's fields after set_freq(f)
set_freq(f) == [freq |-> float(f), samples_elapsed |-> samples_elapsed]

\* SignalGenerator.set_sample_rate: the generator's fields after set_sample_rate(r)
set_sample_rate(r) == [sample_rate |-> r, samples_elapsed |-> reset]

NextSampleCall == [fn |-> "next_sample"]
SetFreqCall(f) == [fn |-> "set_freq", arg |-> f]
SetSampleRateCall(r) == [fn |-> "set_sample_rate", arg |-> r]
ResetCall == [fn |-> "reset"]

GenOps == {"next_sample", "set_freq", "set_sample_rate", "reset"}

\* a generator of its own, no Scanner, Parser or TFSEnvironment around it
GenIdle ==
    /\ parser_pc = "idle"
    /\ scanner_pc = "idle"
    /\ Len(calls) < MaxGenCalls
    /\ \A i \in 1..Len(calls) : calls[i].fn \in GenOps

GenNextSample ==
    /\ GenIdle
    /\ \E s \in {next_sample(samples_elapsed, sample_rate, freq, pulse_percent)} :
         returned' = <<s * 100>>
    /\ samples_elapsed' = samples_elapsed + 1
    /\ calls' = Append(calls, NextSampleCall)
    /\ UNCHANGED <<sample_rate, bpm, gain, freq, pulse_percent>>
    /\ UNCHANGED <<scanner_vars, parser_vars, cli_vars>>

GenSetFreq ==
    /\ GenIdle
    /\ \E f \in GenFreqs :
         \E g \in {set_freq(f)} :
            /\ freq' = g.freq
            /\ samples_elapsed' = g.samples_elapsed
            /\ calls' = Append(calls, SetFreqCall(f))
    /\ UNCHANGED <<sample_rate, bpm, gain, pulse_percent, returned>>
    /\ UNCHANGED <<scanner_vars, parser_vars, cli_vars>>

GenSetSampleRate ==
    /\ GenIdle
    /\ \E r \in GenSampleRates :
         \E g \in {set_sample_rate(r)} :
            /\ sample_rate' = g.sample_rate
            /\ samples_elapsed' = g.samples_elapsed
            /\ calls' = Append(calls, SetSampleRateCall(r))
    /\ UNCHANGED <<bpm, gain, freq, pulse_percent, returned>>
    /\ UNCHANGED <<scanner_vars, parser_vars, cli_vars>>

GenReset ==
    /\ GenIdle
    /\ samples_elapsed' = reset
    /\ calls' = Append(calls, ResetCall)
    /\ UNCHANGED <<sample_rate, bpm, gain, freq, pulse_percent, returned>>
    /\ UNCHANGED <<scanner_vars, parser_vars, cli_vars>>

GenNext ==
    \/ GenNextSample
    \/ GenSetFreq
    \/ GenSetSampleRate
    \/ GenReset

----------------------------------------------------------------------------
(* Inputs *)

RECURSIVE SeqsUpTo(_, _)
SeqsUpTo(S, n) ==
    IF n = 0 THEN {<<>>}
    ELSE LET shorter == SeqsUpTo(S, n - 1)
         IN shorter \cup {Append(s, c) : s \in {t \in shorter : Len(t) = n - 1}, c \in S}

RECURSIVE Flatten(_)
Flatten(ss) == IF Len(ss) = 0 THEN <<>> ELSE Head(ss) \o Flatten(Tail(ss))

RECURSIVE Repeat(_, _)
Repeat(x, n) == IF n = 0 THEN <<>> ELSE <<x>> \o Repeat(x, n - 1)

MaxTextLen == 4

ScanAlphabet == {" ", "\r", "\n", "#", "~", "_", "4", "a", "z"}

ExampleTexts ==
    { <<"a", "8", " ", "z", "4">>,
      <<"a", "4", "\t", "0", "^2">> }

Texts == SeqsUpTo(ScanAlphabet, MaxTextLen) \cup ExampleTexts

\* A token sequence is given by the raw substrings of its tokens; the script is
\* these substrings separated by single spaces, on one line.
MaxTokens == 3
MaxConstructs == 3
MaxOctaveRun == 10

TokenRaws ==
    { <<"a">>, <<"_">>, <<"+">>, <<"-">>, <<">">>, <<"<">>, <<"@">>,
      <<"0">>, <<"4">>, <<"6", "0">>, <<"~">> }

Constructs ==
    { << <<"a">>, <<"4">> >>,
      << <<"c">>, <<"+">>, <<"4">>, <<"~">> >>,
      << <<"b">>, <<"-">>, <<"4">>, <<"~", "~">> >>,
      << <<"_">>, <<"4">> >>,
      << <<"_">>, <<"4">>, <<"~">> >>,
      << <<"@">>, <<"6", "0">> >>,
      << <<">">> >>,
      << <<"<">> >> }

\* every note letter, bare and with each accidental
LetterScripts ==
    { << <<l>> >> \o acc \o << <<"4">> >> :
        l \in NoteLetters, acc \in { <<>>, << <<"+">> >>, << <<"-">> >> } }

OctaveRuns ==
    { Repeat(c, k) \o tail :
        c \in { <<">">>, <<"<">> }, k \in 0..MaxOctaveRun,
        tail \in { <<>>, << <<"c">>, <<"-">>, <<"4">> >>, << <<"b">>, <<"+">>, <<"4">> >> } }

ExampleScripts ==
    { << <<"a">>, <<"+">>, <<"-">>, <<"4">> >>,
      << <<"@">>, <<"1", "1">>, <<"a">>, <<"6", "0">> >> }

Scripts ==
    SeqsUpTo(TokenRaws, MaxTokens)
      \cup { Flatten(cs) : cs \in SeqsUpTo(Constructs, MaxConstructs) }
      \cup LetterScripts \cup OctaveRuns \cup ExampleScripts

\* the token the Scanner makes of the raw substring raw standing at column col
TokenOfRaw(raw, col) ==
    LET c == raw[1]
        at == ScriptIndex(1, col)
    IN IF c = "~" THEN Token(LENGTH_EXT, Len(raw), raw, at)
       ELSE IF c \in SingleChars THEN Token(SingleCharType(c), None, raw, at)
       ELSE IF c \in DecimalDigits THEN Token(NUMBER, int(raw), raw, at)
       ELSE Token(NOTE_LETTER, c, raw, at)

RECURSIVE ScriptColumn(_, _)
ScriptColumn(raws, i) == IF i = 1 THEN 1 ELSE ScriptColumn(raws, i - 1) + Len(raws[i - 1]) + 1

ScriptTokens(raws) == [i \in 1..Len(raws) |-> TokenOfRaw(raws[i], ScriptColumn(raws, i))]

RECURSIVE ScriptText(_)
ScriptText(raws) ==
    IF Len(raws) = 0 THEN <<>>
    ELSE IF Len(raws) = 1 THEN raws[1]
    ELSE raws[1] \o <<" ">> \o ScriptText(Tail(raws))

----------------------------------------------------------------------------
(* Initial states *)

ParserSampleRate == 11
CliBpm == 160

\* Scanner.__init__ up to the call of __try_scan_tokens
ScannerStart(t) ==
    /\ text = t
    /\ scanner_error_msg = [msg |-> "Incomplete"]
    /\ tokens = <<>>
    /\ scanner_current = 0
    /\ current_ln = 0
    /\ current_col = 0
    /\ start_of_token = 0
    /\ scanner_success = "unset"
    /\ scanner_pc = "scanning"

\* the Scanner after it scanned the script of raws
ScannerDone(raws) ==
    /\ text = ScriptText(raws)
    /\ scanner_error_msg = [msg |-> "Text scanned successfully"]
    /\ tokens = ScriptTokens(raws)
    /\ scanner_current = Len(ScriptText(raws))
    /\ current_ln = 0
    /\ current_col = Len(ScriptText(raws))
    /\ start_of_token = IF Len(raws) = 0 THEN 0
                        ELSE Len(ScriptText(raws)) - Len(raws[Len(raws)])
    /\ scanner_success = TRUE
    /\ scanner_pc = "done"

\* no Scanner: the environment is used on its own
ScannerIdle ==
    /\ text = <<>>
    /\ scanner_error_msg = [msg |-> "Incomplete"]
    /\ tokens = <<>>
    /\ scanner_current = 0
    /\ current_ln = 0
    /\ current_col = 0
    /\ start_of_token = 0
    /\ scanner_success = "unset"
    /\ scanner_pc = "idle"

\* Parser.__init__ up to the call of __try_parse_tokens
ParserStart ==
    /\ parser_error_msg = [msg |-> "Incomplete"]
    /\ octave = InitialOctave
    /\ parser_current = 0
    /\ samples = <<>>
    /\ parser_success = "unset"
    /\ parser_pc = "parsing"

ParserIdle ==
    /\ parser_error_msg = [msg |-> "Incomplete"]
    /\ octave = InitialOctave
    /\ parser_current = 0
    /\ samples = <<>>
    /\ parser_success = "unset"
    /\ parser_pc = "idle"

\* TFSEnvironment(rate), then set_bpm(tempo) if tempo differs from the default
EnvStart(rate, tempo) ==
    /\ sample_rate = rate
    /\ bpm = tempo
    /\ gain = DefaultGain
    /\ freq = float(InitialFreq)
    /\ samples_elapsed = 0
    /\ pulse_percent = truediv(1, 8)
    /\ returned = <<>>
    /\ calls = <<>>

CliStart ==
    /\ exception = None
    /\ exit_code = -1
    /\ output = [written |-> FALSE, samples |-> <<>>]

ScanInit ==
    /\ \E t \in Texts : ScannerStart(t)
    /\ ParserIdle
    /\ EnvStart(ParserSampleRate, DefaultBpm)
    /\ CliStart

ParseInit ==
    /\ \E raws \in Scripts : ScannerDone(raws)
    /\ ParserStart
    /\ EnvStart(ParserSampleRate, CliBpm)
    /\ CliStart

EnvInit ==
    /\ ScannerIdle
    /\ ParserIdle
    /\ \E rate \in EnvSampleRates : EnvStart(rate, DefaultBpm)
    /\ CliStart

\* PulseGenerator(rate, f, p[1] / p[2]): __init__ sets the duty cycle, then
\* set_sample_rate(rate) and set_freq(f)
GenStart(rate, f, p) ==
    /\ sample_rate = set_sample_rate(rate).sample_rate
    /\ samples_elapsed = set_sample_rate(rate).samples_elapsed
    /\ freq = set_freq(f).freq
    /\ pulse_percent = truediv(p[1], p[2])
    /\ bpm = DefaultBpm
    /\ gain = DefaultGain
    /\ returned = <<>>
    /\ calls = <<>>

GenInit ==
    /\ ScannerIdle
    /\ ParserIdle
    /\ \E rate \in GenSampleRates, f \in GenFreqs, p \in GenPulses : GenStart(rate, f, p)
    /\ CliStart

----------------------------------------------------------------------------
(* Specifications *)

SpecScan == ScanInit /\ [][ScannerNext]_vars

SpecParse == ParseInit /\ [][ParserNext]_vars

SpecEnv == EnvInit /\ [][EnvNext]_vars

SpecGen == GenInit /\ [][GenNext]_vars

\* the environment, used by the Parser or called directly
RenderNext == ParserNext \/ EnvNext

SpecRender == (ParseInit \/ EnvInit) /\ [][RenderNext]_vars

Next == ScannerNext \/ ParserNext \/ EnvNext \/ GenNext

Spec == (ScanInit \/ ParseInit \/ EnvInit \/ GenInit) /\ [][Next]_vars

----------------------------------------------------------------------------
(* Positions in the text, as the specification counts them: lines and      *)
(* columns are 1-based, a line break is LF, CR, or CR LF taken together.   *)

\* the character at index i starts a line break
StartsBreak(i) ==
    /\ text[i] \in {"\r", "\n"}
    /\ ~(text[i] = "\n" /\ i > 1 /\ text[i - 1] = "\r")

LineOf(i) == 1 + Cardinality({j \in 1..(i - 1) : StartsBreak(j)})

LastBreakCharBefore(i) ==
    LET S == {j \in 1..(i - 1) : text[j] \in {"\r", "\n"}}
    IN IF S = {} THEN 0 ELSE CHOOSE j \in S : \A k \in S : k <= j

PositionOf(i) == ScriptIndex(LineOf(i), i - LastBreakCharBefore(i))

\* first index from i on that holds no character of S, Len(text) + 1 if none
RECURSIVE RunEnd(_, _)
RunEnd(i, S) == IF i <= Len(text) /\ text[i] \in S THEN RunEnd(i + 1, S) ELSE i

\* first index from i on that holds a line-break character, Len(text) + 1 if none
RECURSIVE LineEnd(_)
LineEnd(i) == IF i <= Len(text) /\ text[i] \notin {"\r", "\n"} THEN LineEnd(i + 1) ELSE i

\* the indices of the first characters of the tokens of text from index i on,
\* by the lexical grammar of the specification
RECURSIVE TokenStarts(_)
TokenStarts(i) ==
    IF i > Len(text) THEN <<>>
    ELSE IF text[i] \in {" ", "\t", "\r", "\n"} THEN TokenStarts(i + 1)
    ELSE IF text[i] = "#" THEN TokenStarts(LineEnd(i))
    ELSE IF text[i] \in DecimalDigits THEN <<i>> \o TokenStarts(RunEnd(i, DecimalDigits))
    ELSE IF text[i] = "~" THEN <<i>> \o TokenStarts(RunEnd(i, {"~"}))
    ELSE <<i>> \o TokenStarts(i + 1)

LastCall == calls[Len(calls)]

----------------------------------------------------------------------------
(* Claims *)

\* C1: when the Scanner fails on an unrecognized character, its error message
\* reports exactly the 1-based line and column of that character
\* ("a8 z4": line 1, column 4).
C1_ErrorReportsCharPosition ==
    (scanner_pc = "done" /\ scanner_success = FALSE)
        => scanner_error_msg.at = PositionOf(scanner_current)

\* C2: every emitted token's position is the 1-based line and column of the
\* first character of its raw substring, a CR LF counting as one line break
\* that resets the column counter to 0.
C2_TokenPositionIsFirstChar ==
    (scanner_pc = "done" /\ scanner_success = TRUE) =>
        LET starts == TokenStarts(1)
        IN /\ Len(tokens) = Len(starts)
           /\ \A k \in 1..Len(tokens) :
                 tokens[k].script_index = PositionOf(starts[k])

\* C3: for every text the Scanner ends with success = True or with
\* success = False and a message; it never aborts in another way.
C3_ScannerNeverAborts ==
    /\ scanner_pc # "raised"
    /\ scanner_pc = "done" => scanner_success \in BOOLEAN

\* C4: a Rest token followed by a Number d > 0 and a LengthExtension of value
\* k: the Parser consumes the three tokens, calls rest(d, 1 + k), appends the
\* returned zero samples and goes on.
C4_RestWithExtension ==
    \A i \in 1..(Len(tokens) - 2) :
        ( /\ tokens[i].token_type = REST
          /\ tokens[i + 1].token_type = NUMBER
          /\ tokens[i + 1].value > 0
          /\ tokens[i + 2].token_type = LENGTH_EXT
          /\ parser_pc # "idle"
          /\ parser_current = i + 2 )
        => /\ parser_pc \in {"parsing", "done"}
           /\ parser_pc = "done" => parser_success = TRUE
           /\ Len(calls) > 0
           /\ LastCall.fn = "rest"
           /\ LastCall.beat_divisor = tokens[i + 1].value
           /\ LastCall.duration = 1 + tokens[i + 2].value
           /\ \A j \in 1..Len(returned) : returned[j] = 0
           /\ Len(samples) >= Len(returned)
           /\ SubSeq(samples, Len(samples) - Len(returned) + 1, Len(samples)) = returned

\* C5 (as claimed): after a failed parse the sample sequence held by the
\* Parser is empty.
C5_FailedParseHoldsNoSamples ==
    (parser_pc = "done" /\ parser_success = FALSE) => samples = <<>>

\* C5 (amended): a failing construct leaves Parser.samples as the constructs
\* rendered before it made it; it is tfs.py that surfaces nothing: it writes
\* the output only after a successful parse and exits with 52 otherwise.
C5_FailedParseKeepsSamplesUnsurfaced ==
    /\ [][(parser_pc = "parsing" /\ parser_pc' = "done" /\ parser_success' = FALSE)
            => samples' = samples]_vars
    /\ [](output.written => (parser_success = TRUE /\ output.samples = samples))
    /\ [](exit_code = 52 => (parser_success = FALSE /\ ~output.written))

C5_Witness ==
    /\ exit_code = 52
    /\ parser_success = FALSE
    /\ Len(samples) > 0
    /\ ~output.written

\* C6: the octave is always in 0..9; it starts at 5, only OctaveUp and
\* OctaveDown tokens change it, each to clamp(octave +/- 1, 0, 9); ten
\* OctaveUp tokens from 5 give 9 and ten OctaveDown tokens give 0.
C6_OctaveClamped ==
    /\ [](octave \in 0..9)
    /\ []((parser_pc = "parsing" /\ parser_current = 0) => octave = 5)
    /\ []((Len(tokens) >= 10 /\ parser_current = 10 /\ parser_pc # "idle")
            => /\ (\A i \in 1..10 : tokens[i].token_type = OCT_UP) => octave = 9
               /\ (\A i \in 1..10 : tokens[i].token_type = OCT_DN) => octave = 0)
    /\ [][ /\ octave' # octave
              => (ParseLoop /\ Parser_advance_token.token_type \in {OCT_UP, OCT_DN})
           /\ (ParseLoop /\ Parser_advance_token.token_type = OCT_UP)
              => octave' = IF octave + 1 > 9 THEN 9 ELSE octave + 1
           /\ (ParseLoop /\ Parser_advance_token.token_type = OCT_DN)
              => octave' = IF octave - 1 < 0 THEN 0 ELSE octave - 1 ]_vars

C6_Witness ==
    /\ Len(tokens) >= 10
    /\ \A i \in 1..10 : tokens[i].token_type = OCT_UP
    /\ parser_current = 10
    /\ octave = 9

\* C7: note(n, d, u) and rest(d, u) return exactly
\* floor(sample_rate * (60 / bpm) * (u / d)) * 4 samples.
C7_ExactSampleCount ==
    (Len(calls) > 0 /\ LastCall.fn \in {"note", "rest"})
        => Len(returned) =
             ((sample_rate * 60 * LastCall.duration)
                 \div (LastCall.bpm * LastCall.beat_divisor)) * 4

\* the last call was a note or rest of duration 1 and divisor 4 or 8
C8_Case ==
    /\ Len(calls) > 0
    /\ LastCall.fn \in {"note", "rest"}
    /\ LastCall.duration = 1
    /\ LastCall.beat_divisor \in {4, 8}

C9_Offset(l) ==
    CASE l = "c" -> 0 [] l = "d" -> 2 [] l = "e" -> 4 [] l = "f" -> 5
      [] l = "g" -> 7 [] l = "a" -> 9 [] l = "b" -> 11

C9_IsAccidental(i) == i <= Len(tokens) /\ tokens[i].token_type \in {SHARP, FLAT}

\* C9: the note number passed to note() is octave * 12 + offset(letter), plus 1
\* if the token right after the letter is Sharp, minus 1 if it is Flat; one
\* accidental at most is consumed, so a letter followed by two accidentals is a
\* parse failure.
C9_NoteNumber ==
    [][ (ParseLoop /\ Parser_advance_token.token_type = NOTE_LETTER) =>
          LET i == parser_current + 1
              acc == IF ~C9_IsAccidental(i + 1) THEN 0
                     ELSE IF tokens[i + 1].token_type = SHARP THEN 1 ELSE -1
              n == IF acc = 0 THEN i + 1 ELSE i + 2
              ext == IF n + 1 <= Len(tokens) /\ tokens[n + 1].token_type = LENGTH_EXT
                     THEN 1 ELSE 0
          IN /\ calls' # calls
                => /\ calls' = Append(calls, calls'[Len(calls')])
                   /\ calls'[Len(calls')].fn = "note"
                   /\ calls'[Len(calls')].note_num
                        = octave * 12 + C9_Offset(tokens[i].value) + acc
                   /\ parser_current' = n + ext
             /\ (C9_IsAccidental(i + 1) /\ C9_IsAccidental(i + 2))
                => /\ parser_pc' = "done"
                   /\ parser_success' = FALSE
                   /\ calls' = calls
                   /\ samples' = samples
      ]_vars

C9_Witness ==
    /\ Len(tokens) >= 3
    /\ tokens[1].token_type = NOTE_LETTER
    /\ tokens[1].value = "a"
    /\ tokens[2].token_type = SHARP
    /\ parser_current = 3
    /\ Len(calls) = 1
    /\ LastCall.fn = "note"
    /\ LastCall.note_num = 70

\* C10: a note or rest construct whose divisor is absent (end of tokens, or a
\* token that is no Number) or is the Number 0 fails without a call of note()
\* or rest(): an absent divisor with a message naming the NoteLetter (or Rest)
\* token's kind and position and the expected kind Number, a zero divisor with
\* a "must be greater than 0" message.
C10_AbsentOrZeroDivisor ==
    [][ (ParseLoop /\ Parser_advance_token.token_type \in {NOTE_LETTER, REST}) =>
          LET i == parser_current + 1
              n == IF tokens[i].token_type = NOTE_LETTER /\ C9_IsAccidental(i + 1)
                   THEN i + 2 ELSE i + 1
              absent == n > Len(tokens) \/ tokens[n].token_type # NUMBER
              zero == ~absent /\ tokens[n].value = 0
          IN /\ (absent \/ zero)
                => /\ parser_pc' = "done"
                   /\ parser_success' = FALSE
                   /\ calls' = calls
                   /\ samples' = samples
             /\ absent
                => /\ parser_error_msg'.msg
                        = IF n > Len(tokens) THEN "Missing token after"
                          ELSE "Unexpected token after"
                   /\ parser_error_msg'.after = tokens[i].token_type
                   /\ parser_error_msg'.at = tokens[i].script_index
                   /\ parser_error_msg'.expected = NUMBER
             /\ zero
                => parser_error_msg'.msg = "Measure divisor must be greater than 0"
      ]_vars

C10_Witness ==
    /\ parser_pc = "done"
    /\ parser_success = FALSE
    /\ parser_error_msg.msg = "Missing token after"
    /\ parser_error_msg.after = NOTE_LETTER
    /\ parser_error_msg.at = tokens[parser_current].script_index
    /\ calls = <<>>

\* the tempo in effect when the token at index i is dispatched: the Number of
\* the last TempoChange token before it, the tempo tfs.py sets if there is none
RECURSIVE TempoInEffect(_)
TempoInEffect(i) ==
    IF i <= 1 THEN CliBpm
    ELSE IF i >= 3 /\ tokens[i - 2].token_type = BPM_CHANGE THEN tokens[i - 1].value
    ELSE TempoInEffect(i - 1)

\* C11: a TempoChange token followed by a Number n > 0 sets the environment's
\* tempo to n and appends no samples, the samples accumulated so far staying
\* as they are; every note or rest parsed after it, up to the next tempo
\* construct, has its sample count computed with bpm = n.
C11_TempoConstruct ==
    [][ /\ ( /\ ParseLoop
             /\ Parser_advance_token.token_type = BPM_CHANGE
             /\ parser_current + 2 <= Len(tokens)
             /\ tokens[parser_current + 2].token_type = NUMBER
             /\ tokens[parser_current + 2].value > 0 )
           => /\ bpm' = tokens[parser_current + 2].value
              /\ samples' = samples
              /\ parser_current' = parser_current + 2
              /\ parser_pc' = "parsing"
        /\ ( /\ ParseLoop
             /\ Parser_advance_token.token_type \in {NOTE_LETTER, REST}
             /\ calls' # calls )
           => LET c == calls'[Len(calls')]
                  n == TempoInEffect(parser_current + 1)
              IN /\ bpm = n
                 /\ bpm' = n
                 /\ Len(samples') - Len(samples)
                      = get_num_samples(sample_rate, n, c.beat_divisor, c.duration)
                 /\ SubSeq(samples', 1, Len(samples)) = samples
      ]_vars

\* "@60 a4": the note is rendered at 60 BPM, not at the 160 BPM of tfs.py
C11_Witness ==
    /\ Len(tokens) >= 4
    /\ tokens[1].token_type = BPM_CHANGE
    /\ tokens[2].token_type = NUMBER
    /\ tokens[2].value = 60
    /\ tokens[3].token_type = NOTE_LETTER
    /\ tokens[4].token_type = NUMBER
    /\ tokens[4].value = 4
    /\ parser_current = 4
    /\ bpm = 60
    /\ Len(calls) = 2
    /\ Len(samples) = get_num_samples(sample_rate, 60, 4, 1)
    /\ Len(samples) # get_num_samples(sample_rate, CliBpm, 4, 1)

\* the step is a call of fn on the environment
CallOf(fn) == Len(calls') = Len(calls) + 1 /\ calls'[Len(calls')].fn = fn

\* C12: rest(d, u) returns only samples equal to 0 and leaves the generator's
\* frequency and elapsed-sample counter and the environment's tempo and gain
\* as they are; a note rendered after a rest starts at the elapsed-sample
\* count it would have had without the rest.
C12_RestLeavesGenerator ==
    /\ [][ CallOf("rest")
             => /\ \A j \in 1..Len(returned') : returned'[j] = 0
                /\ freq' = freq
                /\ samples_elapsed' = samples_elapsed
                /\ bpm' = bpm
                /\ gain' = gain ]_vars
    /\ []((Len(calls) = 2 /\ calls[1].fn = "rest" /\ calls[2].fn = "note")
            => samples_elapsed = Len(returned))

C12_Witness ==
    /\ Len(calls) = 2
    /\ calls[1].fn = "rest"
    /\ calls[1].beat_divisor = 4
    /\ calls[1].duration = 3
    /\ calls[2].fn = "note"
    /\ Len(returned) > 0
    /\ samples_elapsed = Len(returned)

\* C13 (as claimed): the elapsed-sample counter starts at 0, increases by
\* exactly 1 on every next_sample(), is left as it is by set_freq(), and is
\* reset to 0 only by set_sample_rate().
C13_OnlySetSampleRateResets ==
    /\ [](calls = <<>> => samples_elapsed = 0)
    /\ [][ /\ CallOf("next_sample") => samples_elapsed' = samples_elapsed + 1
           /\ CallOf("set_freq") => samples_elapsed' = samples_elapsed
           /\ CallOf("set_sample_rate") => samples_elapsed' = 0
           /\ samples_elapsed' < samples_elapsed => CallOf("set_sample_rate") ]_vars

\* C13 (amended): the elapsed-sample counter starts at 0, increases by
\* exactly 1 on every next_sample(), is left as it is by set_freq(), and is
\* reset to 0 only by set_sample_rate() and by reset(), the method
\* set_sample_rate() calls.
C13_OnlyResetsReset ==
    /\ [](calls = <<>> => samples_elapsed = 0)
    /\ [][ /\ CallOf("next_sample") => samples_elapsed' = samples_elapsed + 1
           /\ CallOf("set_freq") => samples_elapsed' = samples_elapsed
           /\ CallOf("set_sample_rate") => samples_elapsed' = 0
           /\ CallOf("reset") => samples_elapsed' = 0
           /\ samples_elapsed' < samples_elapsed
                => (CallOf("set_sample_rate") \/ CallOf("reset")) ]_vars

\* the counter went up, the pitch was changed, and the counter is where it was
C13_Witness ==
    /\ Len(calls) = 3
    /\ calls[1].fn = "next_sample"
    /\ calls[2].fn = "next_sample"
    /\ calls[3].fn = "set_freq"
    /\ samples_elapsed = 2

\* the frequency and the duty cycle of the generator, as the numbers given to it
FreqNumber == CHOOSE f \in GenFreqs : float(f) = freq
PulseFraction == CHOOSE p \in GenPulses : truediv(p[1], p[2]) = pulse_percent

\* C14: the pulse generator returns +1 exactly when
\* ((elapsed_samples / sample_rate) * frequency) mod 1 is less than the duty
\* cycle p, and -1 otherwise; with p = 0.5 and a frequency for which exactly 4
\* samples fit one cycle a new generator yields +1, +1, -1, -1 and so on.
C14_PulseWave ==
    [][ CallOf("next_sample") =>
          LET f == FreqNumber
              p == PulseFraction
              high == ((samples_elapsed * f) % sample_rate) * p[2] < p[1] * sample_rate
          IN /\ returned' = <<IF high THEN 100 ELSE -100>>
             /\ ( /\ p = <<1, 2>>
                  /\ 4 * f = sample_rate
                  /\ \A i \in 1..Len(calls) : calls[i].fn = "next_sample" )
                => returned' = <<IF samples_elapsed % 4 < 2 THEN 100 ELSE -100>>
      ]_vars

\* C15: after a successful parse every element of the Parser's samples lies
\* in [-1, 1] (here -100..100, in hundredths): each sample of a note is +gain
\* or -gain, each sample of a rest is 0, and gain is in [0, 1] in every
\* reachable state of the environment.
C15_SamplesInRange ==
    /\ gain \in 0..100
    /\ (Len(calls) > 0 /\ LastCall.fn = "note")
          => \A j \in 1..Len(returned) : returned[j] \in {gain, -gain}
    /\ (Len(calls) > 0 /\ LastCall.fn = "rest")
          => \A j \in 1..Len(returned) : returned[j] = 0
    /\ (parser_pc = "done" /\ parser_success = TRUE)
          => \A i \in 1..Len(samples) :
                samples[i] \in {gain, -gain, 0} /\ samples[i] \in -100..100

C15_Witness ==
    /\ parser_pc = "done"
    /\ parser_success = TRUE
    /\ gain > 0
    /\ \E i \in 1..Len(samples) : samples[i] = gain
    /\ \E i \in 1..Len(samples) : samples[i] = -gain
    /\ \E i \in 1..Len(samples) : samples[i] = 0

\* C16: a Number, LengthExtension, Sharp or Flat token consumed at top level
\* makes the parse fail with an "Unexpected token" error, and the Parser stops
\* there: no token after it is consumed, and the octave, the tempo and the
\* samples do not change after the first error.
C16_UnexpectedTokenStops ==
    /\ [][ (ParseLoop /\ Parser_advance_token.token_type \in {NUMBER, LENGTH_EXT, SHARP, FLAT})
             => /\ parser_pc' = "done"
                /\ parser_success' = FALSE
                /\ parser_error_msg'.msg = "Unexpected token"
                /\ parser_error_msg'.at = Parser_advance_token.script_index
                /\ parser_error_msg'.found = Parser_advance_token.token_type
                /\ parser_current' = parser_current + 1
                /\ UNCHANGED <<octave, bpm, samples, calls>> ]_vars
    /\ [][ (parser_pc = "done" /\ parser_success = FALSE)
             => /\ parser_pc' = "done"
                /\ parser_success' = FALSE
                /\ UNCHANGED <<parser_current, parser_error_msg, octave, bpm, samples, calls>> ]_vars

\* a rendered construct, then a stray token with more tokens behind it, and
\* tfs.py has left with the Parser's state as the error left it
C16_Witness ==
    /\ parser_pc = "done"
    /\ parser_success = FALSE
    /\ parser_error_msg.msg = "Unexpected token"
    /\ parser_current < Len(tokens)
    /\ tokens[parser_current].token_type \in {NUMBER, LENGTH_EXT, SHARP, FLAT}
    /\ exit_code = 52

\* the token dispatched is a note letter whose divisor, at index n of tokens,
\* is a Number of value 0
C17_ZeroDivisorAt(n) ==
    /\ ParseLoop
    /\ Parser_advance_token.token_type = NOTE_LETTER
    /\ n = (IF C9_IsAccidental(parser_current + 2) THEN parser_current + 3
            ELSE parser_current + 2)
    /\ n <= Len(tokens)
    /\ tokens[n].token_type = NUMBER
    /\ tokens[n].value = 0

\* C17 (as claimed): the error of a note construct whose divisor Number is 0
\* cites the position of the note letter token.
C17_ZeroDivisorCitesLetter ==
    [][ \A n \in 1..Len(tokens) :
          C17_ZeroDivisorAt(n)
            => /\ parser_pc' = "done"
               /\ parser_error_msg'.msg = "Measure divisor must be greater than 0"
               /\ parser_error_msg'.at = Parser_advance_token.script_index ]_vars

\* C17 (amended): the error of a note construct whose divisor Number is 0
\* cites the position of the Number token.
C17_ZeroDivisorCitesNumber ==
    [][ \A n \in 1..Len(tokens) :
          C17_ZeroDivisorAt(n)
            => /\ parser_pc' = "done"
               /\ parser_success' = FALSE
               /\ parser_error_msg'.msg = "Measure divisor must be greater than 0"
               /\ parser_error_msg'.at = tokens[n].script_index ]_vars

\* "a 0": the letter is at column 1, the error cites column 3
C17_Witness ==
    /\ parser_pc = "done"
    /\ parser_success = FALSE
    /\ parser_error_msg.msg = "Measure divisor must be greater than 0"
    /\ parser_current >= 2
    /\ tokens[parser_current - 1].token_type = NOTE_LETTER
    /\ parser_error_msg.at = tokens[parser_current].script_index
    /\ parser_error_msg.at # tokens[parser_current - 1].script_index

\* C18: set_gain(g) replaces the stored gain only when g is 0; for every other
\* g, the fractions between 0 and 1 and 1 among them, the call leaves the gain
\* (0.25 by default) and the rest of the environment's state as they are, so the
\* gain is 0.25 or 0 after any sequence of set_gain calls.
C18_SetGainAcceptsZeroOnly ==
    /\ [](gain \in {DefaultGain, 0})
    /\ [](calls = <<>> => gain = DefaultGain)
    /\ [][ CallOf("set_gain") =>
             /\ gain' = IF calls'[Len(calls')].arg = 0 THEN 0 ELSE gain
             /\ UNCHANGED <<sample_rate, bpm, freq, samples_elapsed, pulse_percent,
                            returned>> ]_vars
    /\ [][ gain' # gain => CallOf("set_gain") ]_vars

\* set_gain(0.5) left the gain at 0.25, then set_gain(0) set it to 0
C18_Witness ==
    /\ Len(calls) = 2
    /\ calls[1] = SetGainCall(50)
    /\ calls[2] = SetGainCall(0)
    /\ gain = 0


\* t without the bodies of its comments (keep_mark) or without its comments
\* (~keep_mark): the characters after a '#' up to, and not including, the next
\* line-break character are left out, and so is the '#' unless keep_mark
RECURSIVE StripFrom(_, _, _, _)
StripFrom(t, i, in_comment, keep_mark) ==
    IF i > Len(t) THEN <<>>
    ELSE IF t[i] \in {"\r", "\n"} THEN <<t[i]>> \o StripFrom(t, i + 1, FALSE, keep_mark)
    ELSE IF in_comment THEN StripFrom(t, i + 1, TRUE, keep_mark)
    ELSE IF t[i] = "#"
    THEN (IF keep_mark THEN <<"#">> ELSE <<>>) \o StripFrom(t, i + 1, TRUE, keep_mark)
    ELSE <<t[i]>> \o StripFrom(t, i + 1, FALSE, keep_mark)

StripBodies(t) == StripFrom(t, 1, FALSE, TRUE)
StripComments(t) == StripFrom(t, 1, FALSE, FALSE)

\* the types and payloads of the tokens toks
Payloads(toks) ==
    [k \in 1..Len(toks) |-> [token_type |-> toks[k].token_type, value |-> toks[k].value]]

\* the Scanner is about to read the '#' at index scanner_current + 1
AtComment ==
    /\ scanner_pc = "scanning"
    /\ scanner_current < Len(text)
    /\ text[scanner_current + 1] = "#"

RECURSIVE ExactTotal(_, _)
ExactTotal(cs, fns) ==
    IF Len(cs) = 0 THEN 0
    ELSE LET c == cs[Len(cs)]
         IN ExactTotal(SubSeq(cs, 1, Len(cs) - 1), fns)
            + (IF c.fn \in fns
               THEN ((sample_rate * 60 * c.duration) \div (c.bpm * c.beat_divisor)) * 4
               ELSE 0)

\* C20: the Parser's token index never exceeds the number of tokens and equals
\* it on success; the final sample sequence then holds the sum, over the note
\* and rest constructs, of floor(sample_rate * (60 / bpm_i) * (u_i / d_i)) * 4
\* samples, and the generator's elapsed-sample counter is that sum over the note
\* constructs only.
C20_SampleTotals ==
    /\ parser_pc # "idle" => parser_current <= Len(tokens)
    /\ (parser_pc = "done" /\ parser_success = TRUE) =>
          /\ parser_current = Len(tokens)
          /\ Len(samples) = ExactTotal(calls, {"note", "rest"})
          /\ samples_elapsed = ExactTotal(calls, {"note"})
====
